---- MODULE Spec2Model ----
(***************************************************************************)
(* Period Comparison Aggregation Engine of the campaign analysis scripts:  *)
(*   src/campaign_analysis_duckdb.py         ("duckdb")                    *)
(*   src/campaign_analysis_final_version.py  ("final")                     *)
(*   src/campaign_analysis_merged.py         ("merged")                    *)
(* Dates are day numbers.  Metric values are exact rationals <<n, d>> in   *)
(* lowest terms with d > 0: the scripts divide sums by week counts and by  *)
(* the number of control regions, and the merged script divides by a       *)
(* fractional week count.  Binary floating-point rounding error of those   *)
(* divisions is not modelled.                                              *)
(***************************************************************************)
EXTENDS Integers, Sequences, FiniteSets, TLC

VARIABLES app, ga_data, shopify_data, config, results, report_counter, call, error,
          analysis_reports, conn, weeks_shared, built

vars == <<app, ga_data, shopify_data, config, results, report_counter, call, error,
          analysis_reports, conn, weeks_shared, built>>

(***************************************************************************)
(* Bounds of the model.                                                    *)
(***************************************************************************)
MaxDay == 11
MaxRows == 3
MaxSessions == 2
MaxSales == 2
MaxValue == 6
MaxDenominator == 3
MaxDate == 24
MaxReports == 2
MaxWeeks == 2

(***************************************************************************)
(* Program constants.                                                      *)
(***************************************************************************)
DaysPerWeek == 7

AVERAGE == "Average (/weeks)"
SUM_TOTAL == "Sum (Total)"
SEPARATE == "Separate Columns"
COMBINED == "Combined Column"
NOT_APPLICABLE == "N/A"
\* the source returns U+221E (the infinity sign); spelled in ASCII here
INFINITE == "inf"
CONTROL_SET == "Control set"
NO_ERROR == ""
GENERATE_ERROR == "Error generating analysis"
WEEK_ERROR == "Start date must be before or equal to end date"

(***************************************************************************)
(* Exact rational arithmetic.                                              *)
(***************************************************************************)
Abs(n) == IF n < 0 THEN -n ELSE n

RECURSIVE GCD(_, _)
GCD(a, b) == IF b = 0 THEN a ELSE GCD(b, a % b)

Rat(n, d) ==
    LET s == IF d < 0 THEN -1 ELSE 1
        g == GCD(Abs(n), Abs(d))
    IN  <<(s * n) \div g, (s * d) \div g>>

RInt(n) == <<n, 1>>
RAdd(x, y) == Rat(x[1] * y[2] + y[1] * x[2], x[2] * y[2])
RSub(x, y) == Rat(x[1] * y[2] - y[1] * x[2], x[2] * y[2])
RMul(x, y) == Rat(x[1] * y[1], x[2] * y[2])
RDiv(x, y) == Rat(x[1] * y[2], x[2] * y[1])
RLess(x, y) == x[1] * y[2] < y[1] * x[2]
RIsInt(x) == x[2] = 1

RECURSIVE RSum(_)
RSum(s) == IF s = <<>> THEN RInt(0) ELSE RAdd(Head(s), RSum(Tail(s)))

\* Python round() and the 'f' format: nearest integer to n/d (d > 0), ties to even
RoundHalfEven(n, d) ==
    LET q == n \div d
        r == n - q * d
    IN  IF 2 * r < d THEN q
        ELSE IF 2 * r > d THEN q + 1
        ELSE IF q % 2 = 0 THEN q ELSE q + 1

(***************************************************************************)
(* Period: [start, end] in day numbers.                                    *)
(***************************************************************************)
Period(s, e) == [start |-> s, end |-> e]

\* days = (end - start).days + 1
DaySpan(start_date, end_date) == end_date - start_date + 1

\* duckdb and final: max(1, round(days / 7))
calculate_weeks_in_period(start_date, end_date) ==
    LET days == DaySpan(start_date, end_date)
        rounded == RoundHalfEven(days, DaysPerWeek)
    IN  RInt(IF rounded < 1 THEN 1 ELSE rounded)

\* merged: max(1, days / 7), not rounded
calculate_weeks_in_period_merged(start_date, end_date) ==
    LET days == DaySpan(start_date, end_date)
        weeks == Rat(days, DaysPerWeek)
    IN  IF RLess(weeks, RInt(1)) THEN RInt(1) ELSE weeks

(***************************************************************************)
(* Change calculator.  format_signed_1 is Python's f"{change:+.1f}%":      *)
(* explicit sign, the magnitude rounded to tenths (ties to even), one      *)
(* decimal digit.  negative_zero is the sign of a floating-point zero.     *)
(***************************************************************************)
format_unsigned_1(change, negative_zero) ==
    LET negative == change[1] < 0 \/ (change[1] = 0 /\ negative_zero)
        tenths == RoundHalfEven(Abs(change[1]) * 10, change[2])
    IN  (IF negative THEN "-" ELSE "") \o ToString(tenths \div 10) \o "."
            \o ToString(tenths % 10) \o "%"

format_signed_1(change, negative_zero) ==
    LET negative == change[1] < 0 \/ (change[1] = 0 /\ negative_zero)
        tenths == RoundHalfEven(Abs(change[1]) * 10, change[2])
    IN  (IF negative THEN "-" ELSE "+") \o ToString(tenths \div 10) \o "."
            \o ToString(tenths % 10) \o "%"

percentage_change_no_infinite(base_value, campaign_value) ==
    IF base_value[1] = 0
    THEN NOT_APPLICABLE
    ELSE LET diff == RSub(campaign_value, base_value)
             change == RMul(RDiv(diff, base_value), RInt(100))
         IN  format_signed_1(change, diff[1] = 0 /\ base_value[1] < 0)

calculate_percentage_change(base_value, campaign_value) ==
    IF base_value[1] = 0
    THEN (IF campaign_value[1] = 0 THEN NOT_APPLICABLE ELSE INFINITE)
    ELSE LET diff == RSub(campaign_value, base_value)
             change == RMul(RDiv(diff, base_value), RInt(100))
         \* 0.0 / negative is -0.0 in floating point, and -0.0 * 100 is -0.0
         IN  format_signed_1(change, diff[1] = 0 /\ base_value[1] < 0)

(***************************************************************************)
(* Tables.  ga_data rows are [Region, Date, Source, Sessions], shopify_data *)
(* rows are [Region, Day, Net_sales]; a table is a set of rows.            *)
(***************************************************************************)
RECURSIVE SumField(_, _)
SumField(rows, f) ==
    IF rows = {} THEN 0
    ELSE LET r == CHOOSE x \in rows : TRUE
         IN  r[f] + SumField(rows \ {r}, f)

\* SQL: SUM(CASE WHEN <matching> THEN <f> ELSE 0 END) FROM <scanned>;
\* NULL (<<>>) when the WHERE clause leaves no row to scan
SqlSum(scanned, matching, f) ==
    IF scanned = {} THEN <<>> ELSE <<SumField(matching, f)>>

\* Python: (result[i] or 0)
OrOne(v) == IF v = <<>> THEN 1 ELSE v[1]

OrZero(v) == IF v = <<>> THEN 0 ELSE v[1]

\* SQL: Date >= '{start}' AND Date <= '{end}'
InPeriod(d, p) == d >= p.start /\ d <= p.end

\* google_filter: "Session source" IN (...) if google_sources else 1=0
google_filter_all_when_empty(r, google_sources) ==
    IF google_sources # {} THEN r.Source \in google_sources ELSE TRUE

google_filter(r, google_sources) ==
    IF google_sources # {} THEN r.Source \in google_sources ELSE FALSE

\* merged: mask = (df[date_col] >= start) & (df[date_col] <= end)
filter_data_by_period(df, date_col, start_date, end_date) ==
    {r \in df : r[date_col] >= start_date /\ r[date_col] <= end_date}

\* target_regions = [r for r in regions if r not in control_regions]
InSeq(x, s) == \E i \in 1..Len(s) : s[i] = x

target_regions_keeping_control(regions, control_regions) == regions

target_regions(regions, control_regions) ==
    SelectSeq(regions, LAMBDA r : ~InSeq(r, control_regions))

Metrics(total, google, sales) ==
    [Sessions_Total |-> total, Sessions_Google |-> google, Net_Sales |-> sales]

MetricNames == {"Sessions_Total", "Sessions_Google", "Net_Sales"}

\* the three calculate_percentage_change calls of one comparison
Changes(base, campaign) ==
    [m \in MetricNames |-> calculate_percentage_change(base[m], campaign[m])]

Row(region, base, campaign, combined, change, change_combined) ==
    [Region |-> region, Base |-> base, Campaign |-> campaign,
     Combined |-> combined, Change |-> change,
     Change_Combined |-> change_combined]

SeqToSet(s) == {s[i] : i \in 1..Len(s)}

(***************************************************************************)
(* duckdb: create_analysis_with_duckdb, process_control_regions_duckdb.    *)
(* A row holds Base = <<base 1, base 2>>, Campaign = <<campaign>> and      *)
(* Change[b][1] = Change<b> (base b against the campaign).                 *)
(***************************************************************************)
\* base weeks are always averaged
base_divisor(cfg, period) == calculate_weeks_in_period(period.start, period.end)

\* duckdb: campaign_weeks if base_week_method == "Average" else 1
campaign_divisor(cfg, period) ==
    IF cfg.base_week_method = AVERAGE
    THEN calculate_weeks_in_period(period.start, period.end) ELSE RInt(1)

\* SELECT SUM(Sessions), SUM(CASE WHEN google_filter ...) FROM ga_data
\* WHERE region_column = region AND Date >= start AND Date <= end
ga_region_query_end_exclusive(region, period, google_sources) ==
    LET rows == {r \in ga_data : r.Region = region
                                 /\ r.Date >= period.start /\ r.Date < period.end}
    IN  <<SqlSum(rows, rows, "Sessions"),
          SqlSum(rows, {r \in rows : google_filter(r, google_sources)}, "Sessions")>>

ga_region_query(region, period, google_sources) ==
    LET rows == {r \in ga_data : r.Region = region /\ InPeriod(r.Date, period)}
    IN  <<SqlSum(rows, rows, "Sessions"),
          SqlSum(rows, {r \in rows : google_filter(r, google_sources)}, "Sessions")>>

\* SELECT SUM("Net sales") FROM shopify_data WHERE region AND Day in period
shopify_region_query(region, period) ==
    LET rows == {r \in shopify_data : r.Region = region /\ InPeriod(r.Day, period)}
    IN  <<SqlSum(rows, rows, "Net_sales")>>

\* (result or 0) / divisor for the three metrics of one region and period
region_metrics(region, period, google_sources, divisor) ==
    LET ga == ga_region_query(region, period, google_sources)
        shopify == shopify_region_query(region, period)
    IN  Metrics(RDiv(RInt(OrZero(ga[1])), divisor),
                RDiv(RInt(OrZero(ga[2])), divisor),
                RDiv(RInt(OrZero(shopify[1])), divisor))

\* one iteration of "for region in target_regions"
target_row_duckdb(cfg, region) ==
    LET base1 == region_metrics(region, cfg.base_weeks[1], cfg.google_sources,
                                base_divisor(cfg, cfg.base_weeks[1]))
        base2 == region_metrics(region, cfg.base_weeks[2], cfg.google_sources,
                                base_divisor(cfg, cfg.base_weeks[2]))
        campaign == region_metrics(region, cfg.campaign_weeks[1], cfg.google_sources,
                                   campaign_divisor(cfg, cfg.campaign_weeks[1]))
    IN  Row(region, <<base1, base2>>, <<campaign>>, <<>>,
            <<  <<Changes(base1, campaign)>>, <<Changes(base2, campaign)>>  >>, <<>>)

create_analysis_with_duckdb(cfg) ==
    LET targets == target_regions(cfg.selected_regions, cfg.control_regions)
    IN  [i \in 1..Len(targets) |-> target_row_duckdb(cfg, targets[i])]

\* SELECT SUM(CASE WHEN Date in period [AND google_filter] THEN Sessions ELSE 0 END)
\* FROM ga_data WHERE region_column IN (control regions)
ga_control_query_first_region_only(control_regions, period, google_sources) ==
    LET scanned == {r \in ga_data : r.Region = Head(control_regions)}
        inperiod == {r \in scanned : InPeriod(r.Date, period)}
    IN  <<SqlSum(scanned, inperiod, "Sessions"),
          SqlSum(scanned, {r \in inperiod : google_filter(r, google_sources)},
                 "Sessions")>>

ga_control_query(control_regions, period, google_sources) ==
    LET scanned == {r \in ga_data : r.Region \in SeqToSet(control_regions)}
        inperiod == {r \in scanned : InPeriod(r.Date, period)}
    IN  <<SqlSum(scanned, inperiod, "Sessions"),
          SqlSum(scanned, {r \in inperiod : google_filter(r, google_sources)},
                 "Sessions")>>

shopify_control_query(control_regions, period) ==
    LET scanned == {r \in shopify_data : r.Region \in SeqToSet(control_regions)}
    IN  <<SqlSum(scanned, {r \in scanned : InPeriod(r.Day, period)}, "Net_sales")>>

\* (result or 0) / (control_region_count * divisor)
control_metrics_without_count(control_regions, period, google_sources, divisor) ==
    LET ga == ga_control_query(control_regions, period, google_sources)
        shopify == shopify_control_query(control_regions, period)
    IN  Metrics(RDiv(RInt(OrZero(ga[1])), divisor),
                RDiv(RInt(OrZero(ga[2])), divisor),
                RDiv(RInt(OrZero(shopify[1])), divisor))

control_metrics(control_regions, period, google_sources, divisor) ==
    LET ga == ga_control_query(control_regions, period, google_sources)
        shopify == shopify_control_query(control_regions, period)
        control_region_count == Len(control_regions)
        by == RMul(RInt(control_region_count), divisor)
    IN  Metrics(RDiv(RInt(OrZero(ga[1])), by),
                RDiv(RInt(OrZero(ga[2])), by),
                RDiv(RInt(OrZero(shopify[1])), by))

\* None is <<>>, a row is <<row>>
process_control_regions_duckdb_unselected_only(cfg) ==
    LET control_regions == SelectSeq(cfg.control_regions,
                                     LAMBDA r : ~InSeq(r, cfg.selected_regions))
    IN  IF control_regions = <<>> THEN <<>>
        ELSE LET base1 == control_metrics(control_regions, cfg.base_weeks[1],
                              cfg.google_sources, base_divisor(cfg, cfg.base_weeks[1]))
                 base2 == control_metrics(control_regions, cfg.base_weeks[2],
                              cfg.google_sources, base_divisor(cfg, cfg.base_weeks[2]))
                 campaign == control_metrics(control_regions, cfg.campaign_weeks[1],
                              cfg.google_sources,
                              campaign_divisor(cfg, cfg.campaign_weeks[1]))
             IN  << Row(CONTROL_SET, <<base1, base2>>, <<campaign>>, <<>>,
                        <<  <<Changes(base1, campaign)>>, <<Changes(base2, campaign)>>  >>,
                        <<>>) >>

process_control_regions_duckdb(cfg) ==
    IF cfg.control_regions = <<>> THEN <<>>
    ELSE LET base1 == control_metrics(cfg.control_regions, cfg.base_weeks[1],
                          cfg.google_sources, base_divisor(cfg, cfg.base_weeks[1]))
             base2 == control_metrics(cfg.control_regions, cfg.base_weeks[2],
                          cfg.google_sources, base_divisor(cfg, cfg.base_weeks[2]))
             campaign == control_metrics(cfg.control_regions, cfg.campaign_weeks[1],
                          cfg.google_sources,
                          campaign_divisor(cfg, cfg.campaign_weeks[1]))
         IN  << Row(CONTROL_SET, <<base1, base2>>, <<campaign>>, <<>>,
                    <<  <<Changes(base1, campaign)>>, <<Changes(base2, campaign)>>  >>,
                    <<>>) >>

\* main: results, then "if control_regions: ... if control_result: results.append"
generate_duckdb_always_control(cfg) ==
    create_analysis_with_duckdb(cfg)
        \o <<Row(CONTROL_SET, <<>>, <<>>, <<>>, <<>>, <<>>)>>

generate_duckdb_control_first(cfg) ==
    LET rows == create_analysis_with_duckdb(cfg)
        control_result == IF cfg.control_regions # <<>>
                          THEN process_control_regions_duckdb(cfg) ELSE <<>>
    IN  control_result \o rows

generate_duckdb_once_with_control(cfg) ==
    LET rows == create_analysis_with_duckdb(cfg)
        control_result == IF cfg.control_regions # <<>> /\ report_counter = 0
                          THEN process_control_regions_duckdb(cfg) ELSE <<>>
    IN  rows \o control_result

generate_duckdb(cfg) ==
    LET rows == create_analysis_with_duckdb(cfg)
        control_result == IF cfg.control_regions # <<>>
                          THEN process_control_regions_duckdb(cfg) ELSE <<>>
    IN  rows \o control_result

(***************************************************************************)
(* final: one base week, a list of campaign weeks.  Separate Columns gives *)
(* Campaign[i] and Change[1][i] per week, Combined Column gives Combined   *)
(* and Change_Combined.                                                    *)
(***************************************************************************)
\* campaign_week_weeks if campaign_calculation_method == "Average" else 1
campaign_divisor_final(cfg, week) ==
    IF cfg.campaign_calculation_method = AVERAGE
    THEN calculate_weeks_in_period(week.start, week.end) ELSE RInt(1)

MetricSeq(values, m) == [i \in 1..Len(values) |-> values[i][m]]

\* "Average": sum(values) / len(values); else sum(values)
combine_campaign_always_sum(cfg, values) ==
    [m \in MetricNames |-> RSum(MetricSeq(values, m))]

combine_campaign(cfg, values) ==
    IF cfg.campaign_calculation_method = AVERAGE
    THEN [m \in MetricNames |-> RDiv(RSum(MetricSeq(values, m)), RInt(Len(values)))]
    ELSE [m \in MetricNames |-> RSum(MetricSeq(values, m))]

\* the row built from the base metrics and the per-week campaign metrics
result_row_final_first_week_only(cfg, region, base, weeks) ==
    Row(region, <<base>>, <<weeks[1]>>, <<>>, << <<Changes(base, weeks[1])>> >>, <<>>)

result_row_final(cfg, region, base, weeks) ==
    IF cfg.campaign_display_method = SEPARATE
    THEN Row(region, <<base>>, weeks, <<>>,
             << [i \in 1..Len(weeks) |-> Changes(base, weeks[i])] >>, <<>>)
    ELSE IF cfg.campaign_display_method = COMBINED
    THEN LET combined == combine_campaign(cfg, weeks)
         IN  Row(region, <<base>>, <<>>, <<combined>>, << <<>> >>,
                 <<Changes(base, combined)>>)
    ELSE Row(region, <<base>>, <<>>, <<>>, << <<>> >>, <<>>)

target_row_final(cfg, region) ==
    LET base == region_metrics(region, cfg.base_weeks[1], cfg.google_sources,
                               base_divisor(cfg, cfg.base_weeks[1]))
        weeks == [i \in 1..Len(cfg.campaign_weeks) |->
                    region_metrics(region, cfg.campaign_weeks[i], cfg.google_sources,
                                   campaign_divisor_final(cfg, cfg.campaign_weeks[i]))]
    IN  result_row_final(cfg, region, base, weeks)

create_analysis_with_duckdb_final(cfg) ==
    LET targets == target_regions(cfg.selected_regions, cfg.control_regions)
    IN  [i \in 1..Len(targets) |-> target_row_final(cfg, targets[i])]

process_control_regions_duckdb_final(cfg) ==
    IF cfg.control_regions = <<>> THEN <<>>
    ELSE LET base == control_metrics(cfg.control_regions, cfg.base_weeks[1],
                         cfg.google_sources, base_divisor(cfg, cfg.base_weeks[1]))
             weeks == [i \in 1..Len(cfg.campaign_weeks) |->
                         control_metrics(cfg.control_regions, cfg.campaign_weeks[i],
                             cfg.google_sources,
                             campaign_divisor_final(cfg, cfg.campaign_weeks[i]))]
         IN  << result_row_final(cfg, CONTROL_SET, base, weeks) >>

generate_final(cfg) ==
    LET rows == create_analysis_with_duckdb_final(cfg)
        control_result == IF cfg.control_regions # <<>>
                          THEN process_control_regions_duckdb_final(cfg) ELSE <<>>
    IN  rows \o control_result

(***************************************************************************)
(* merged: create_analysis_table, in-memory filter-then-sum.               *)
(***************************************************************************)
\* base_week_weeks if base_week_method == "Average" else 1
base_divisor_merged(cfg, period) ==
    IF cfg.base_week_method = AVERAGE
    THEN calculate_weeks_in_period_merged(period.start, period.end) ELSE RInt(1)

\* the campaign sums are always divided by campaign_weeks
campaign_divisor_merged(cfg, period) ==
    calculate_weeks_in_period_merged(period.start, period.end)

\* the three .sum() of one region and period, undivided
region_sums_merged(region, period, google_sources) ==
    LET ga_region == {r \in ga_data : r.Region = region}
        shopify_region_data == {r \in shopify_data : r.Region = region}
        ga == filter_data_by_period(ga_region, "Date", period.start, period.end)
        shopify == filter_data_by_period(shopify_region_data, "Day",
                                         period.start, period.end)
        ga_google == {r \in ga : r.Source \in google_sources}
    IN  Metrics(SumField(ga, "Sessions"), SumField(ga_google, "Sessions"),
                SumField(shopify, "Net_sales"))

DivideMetrics(sums, by) == [m \in MetricNames |-> RDiv(RInt(sums[m]), by)]

target_row_merged(cfg, region) ==
    LET base1 == DivideMetrics(
                     region_sums_merged(region, cfg.base_weeks[1], cfg.google_sources),
                     base_divisor_merged(cfg, cfg.base_weeks[1]))
        base2 == DivideMetrics(
                     region_sums_merged(region, cfg.base_weeks[2], cfg.google_sources),
                     base_divisor_merged(cfg, cfg.base_weeks[2]))
        campaign == DivideMetrics(
                     region_sums_merged(region, cfg.campaign_weeks[1], cfg.google_sources),
                     campaign_divisor_merged(cfg, cfg.campaign_weeks[1]))
    IN  Row(region, <<base1, base2>>, <<campaign>>, <<>>,
            <<  <<Changes(base1, campaign)>>, <<Changes(base2, campaign)>>  >>, <<>>)

\* "for control_region in control_regions: control_... += ....sum()"
RECURSIVE control_sums_merged(_, _, _)
control_sums_merged(control_regions, period, google_sources) ==
    IF control_regions = <<>> THEN Metrics(0, 0, 0)
    ELSE LET one == region_sums_merged(Head(control_regions), period, google_sources)
             rest == control_sums_merged(Tail(control_regions), period, google_sources)
         IN  [m \in MetricNames |-> one[m] + rest[m]]

\* control_... / (control_region_count * divisor)
control_metrics_merged(control_regions, period, google_sources, divisor) ==
    DivideMetrics(control_sums_merged(control_regions, period, google_sources),
                  RMul(RInt(Len(control_regions)), divisor))

control_row_merged(cfg) ==
    LET base1 == control_metrics_merged(cfg.control_regions, cfg.base_weeks[1],
                     cfg.google_sources, base_divisor_merged(cfg, cfg.base_weeks[1]))
        base2 == control_metrics_merged(cfg.control_regions, cfg.base_weeks[2],
                     cfg.google_sources, base_divisor_merged(cfg, cfg.base_weeks[2]))
        campaign == control_metrics_merged(cfg.control_regions, cfg.campaign_weeks[1],
                     cfg.google_sources,
                     campaign_divisor_merged(cfg, cfg.campaign_weeks[1]))
    IN  Row(CONTROL_SET, <<base1, base2>>, <<campaign>>, <<>>,
            <<  <<Changes(base1, campaign)>>, <<Changes(base2, campaign)>>  >>, <<>>)

create_analysis_table(cfg) ==
    LET targets == target_regions(cfg.selected_regions, cfg.control_regions)
        rows == [i \in 1..Len(targets) |-> target_row_merged(cfg, targets[i])]
    IN  IF cfg.control_regions # <<>> THEN Append(rows, control_row_merged(cfg))
        ELSE rows

(***************************************************************************)
(* Inputs: the uploaded tables and the sidebar configuration.              *)
(***************************************************************************)
Apps == {"duckdb", "final", "merged"}
Regions == {"East", "West", "North"}
Sources == {"google", "direct"}
Methods == {AVERAGE, SUM_TOTAL}
DisplayMethods == {SEPARATE, COMBINED}

RECURSIVE SetsUpTo(_, _)
SetsUpTo(U, n) ==
    IF n = 0 THEN {{}}
    ELSE LET S == SetsUpTo(U, n - 1) IN S \cup {s \cup {x} : s \in S, x \in U}

\* lists without repetition (a multiselect returns each option at most once)
RECURSIVE ListsUpTo(_, _)
ListsUpTo(U, n) ==
    IF n = 0 THEN {<<>>}
    ELSE LET S == ListsUpTo(U, n - 1)
         IN  S \cup UNION {{Append(s, x) : x \in U \ SeqToSet(s)} : s \in S}

\* rows are dated on the first and on the last day of the calendar
RowDays == {0, MaxDay}

GaRows(Rs, Ss, Vs) == [Region : Rs, Date : RowDays, Source : Ss, Sessions : Vs]

ShopifyRows(Rs, Ds) == [Region : Rs, Day : Ds, Net_sales : {-MaxSales, MaxSales}]

\* the periods a date picker is set to: the whole calendar, the calendar
\* without its first or without its last day, and its first day alone
Periods == {Period(0, MaxDay), Period(1, MaxDay), Period(0, MaxDay - 1), Period(0, 0)}

Config(selected, control, sources, method, calc, display, bases, campaigns) ==
    [selected_regions |-> selected, control_regions |-> control,
     google_sources |-> sources, base_week_method |-> method,
     campaign_calculation_method |-> calc, campaign_display_method |-> display,
     base_weeks |-> bases, campaign_weeks |-> campaigns]

NoReport == [report_generated |-> FALSE, analysis_df |-> <<>>, config |-> <<>>]
NoCall == [fn |-> "none"]

\* the validation that returns before the Generate button is rendered
ValidPeriods_base_only(cfg) ==
    \A i \in 1..Len(cfg.base_weeks) : cfg.base_weeks[i].start <= cfg.base_weeks[i].end

ValidPeriods(cfg) ==
    /\ \A i \in 1..Len(cfg.base_weeks) : cfg.base_weeks[i].start <= cfg.base_weeks[i].end
    /\ \A i \in 1..Len(cfg.campaign_weeks) :
           cfg.campaign_weeks[i].start <= cfg.campaign_weeks[i].end

\* the message of the first check that returns, in the order of the script
validation_message(a, cfg) ==
    IF a = "final"
    THEN IF cfg.base_weeks[1].start > cfg.base_weeks[1].end
         THEN "Base week start date must be before end date"
         ELSE IF cfg.campaign_weeks = <<>>
         THEN "Please add at least one campaign week."
         ELSE IF cfg.selected_regions = <<>>
         THEN "Please select at least one region for analysis."
         ELSE NO_ERROR
    ELSE IF cfg.base_weeks[1].start > cfg.base_weeks[1].end
         THEN "Base week 1 start date must be before end date"
         ELSE IF cfg.base_weeks[2].start > cfg.base_weeks[2].end
         THEN "Base week 2 start date must be before end date"
         ELSE IF cfg.campaign_weeks[1].start > cfg.campaign_weeks[1].end
         THEN "Campaign start date must be before end date"
         ELSE IF cfg.selected_regions = <<>>
         THEN "Please select at least one region for analysis."
         ELSE NO_ERROR

(***************************************************************************)
(* SQL text.  duckdb and final put region labels and whitelist sources     *)
(* into the query text as '{label}' without escaping.  What matters of a   *)
(* label is how many single quotes it holds: LabelPieces are its pieces    *)
(* between them.  A statement with an odd number of single quotes ends in  *)
(* an unterminated string literal and the parser raises; the labels of the *)
(* model hold at most one quote per statement.                             *)
(***************************************************************************)
QUOTE == "'"
ONEIL == "O" \o QUOTE \o "Neil"

LabelPieces(label) == IF label = ONEIL THEN <<"O", "Neil">> ELSE <<label>>

QuoteCount(label) == Len(LabelPieces(label)) - 1

RECURSIVE QuotesIn(_)
QuotesIn(labels) ==
    IF labels = {} THEN 0
    ELSE LET l == CHOOSE x \in labels : TRUE
         IN  QuoteCount(l) + QuotesIn(labels \ {l})

\* conn.execute(query) raises for the statement built from these labels
sql_raises(region_labels, google_sources) ==
    (QuotesIn(region_labels) + QuotesIn(google_sources)) % 2 = 1

\* the GA and Shopify statements of one target region, or of the control set
region_queries_raise(region_labels, google_sources) ==
    sql_raises(region_labels, google_sources) \/ sql_raises(region_labels, {})

\* some statement of the build raises: the exception leaves
\* create_analysis_with_duckdb or process_control_regions_duckdb
targets_raise(cfg) ==
    LET targets == target_regions(cfg.selected_regions, cfg.control_regions)
    IN  \E i \in 1..Len(targets) :
            region_queries_raise({targets[i]}, cfg.google_sources)

control_raises(cfg) ==
    /\ cfg.control_regions # <<>>
    /\ region_queries_raise(SeqToSet(cfg.control_regions), cfg.google_sources)

build_raises(cfg) == targets_raise(cfg) \/ control_raises(cfg)

\* the connection when the handler ends: create_analysis_with_duckdb closes
\* it in its except clause, the handler closes it after the control set, and
\* nothing closes it when process_control_regions_duckdb raises
CLOSED == "closed"
OPEN == "open"
NO_CONNECTION == "none"

connection_after(cfg) ==
    IF targets_raise(cfg) THEN CLOSED
    ELSE IF control_raises(cfg) THEN OPEN
    ELSE CLOSED

(***************************************************************************)
(* The Generate Analysis handlers.  An exception of the build is caught by *)
(* the handler, which shows the error and stores nothing.                  *)
(***************************************************************************)
\* duckdb numbers its reports and appends them to analysis_reports; results
\* is the report appended last (the earlier ones are never written again)
GenerateDuckdb_keeping_partial ==
    /\ app = "duckdb"
    /\ config.selected_regions # <<>>
    /\ ValidPeriods(config)
    /\ report_counter < MaxReports
    /\ report_counter' = report_counter + 1
    /\ results' = [report_generated |-> TRUE, id |-> report_counter',
                   analysis_df |-> create_analysis_with_duckdb(
                       [config EXCEPT !.selected_regions =
                           SelectSeq(@, LAMBDA r : QuoteCount(r) = 0)]),
                   config |-> config]
    /\ analysis_reports' = Append(analysis_reports, results')
    /\ built' = config
    /\ error' = IF build_raises(config) THEN GENERATE_ERROR ELSE NO_ERROR
    /\ conn' = connection_after(config)
    /\ UNCHANGED <<app, ga_data, shopify_data, config, call, weeks_shared>>

GenerateDuckdb_counting_attempts ==
    /\ app = "duckdb"
    /\ config.selected_regions # <<>>
    /\ ValidPeriods(config)
    /\ report_counter < MaxReports
    /\ report_counter' = report_counter + 1
    /\ IF build_raises(config)
       THEN /\ error' = GENERATE_ERROR
            /\ UNCHANGED <<results, analysis_reports, built>>
       ELSE /\ results' = [report_generated |-> TRUE, id |-> report_counter',
                           analysis_df |-> generate_duckdb(config),
                           config |-> config]
            /\ analysis_reports' = Append(analysis_reports, results')
            /\ built' = config
            /\ error' = NO_ERROR
    /\ conn' = connection_after(config)
    /\ UNCHANGED <<app, ga_data, shopify_data, config, call, weeks_shared>>

GenerateDuckdb ==
    /\ app = "duckdb"
    /\ config.selected_regions # <<>>
    /\ ValidPeriods(config)
    /\ report_counter < MaxReports
    /\ IF build_raises(config)
       THEN /\ error' = GENERATE_ERROR
            /\ UNCHANGED <<results, report_counter, analysis_reports, built>>
       ELSE /\ report_counter' = report_counter + 1
            /\ results' = [report_generated |-> TRUE, id |-> report_counter',
                           analysis_df |-> generate_duckdb(config),
                           config |-> config]
            /\ analysis_reports' = Append(analysis_reports, results')
            /\ built' = config
            /\ error' = NO_ERROR
    /\ conn' = connection_after(config)
    /\ UNCHANGED <<app, ga_data, shopify_data, config, call, weeks_shared>>

\* final replaces the section's stored dictionary; its config holds the
\* section's list of campaign weeks itself, not a copy of it
GenerateFinal_without_weeks_check ==
    /\ app = "final"
    /\ config.selected_regions # <<>>
    /\ ValidPeriods(config)
    /\ results' = [report_generated |-> TRUE,
                   analysis_df |-> generate_final(
                       [config EXCEPT !.campaign_display_method = SEPARATE]),
                   config |-> config]
    /\ built' = config
    /\ weeks_shared' = TRUE
    /\ error' = NO_ERROR
    /\ conn' = CLOSED
    /\ UNCHANGED <<app, ga_data, shopify_data, config, report_counter, call,
                   analysis_reports>>

GenerateFinal_clearing_on_error ==
    /\ app = "final"
    /\ config.selected_regions # <<>>
    /\ ValidPeriods(config)
    /\ config.campaign_weeks # <<>>
    /\ IF build_raises(config)
       THEN /\ error' = GENERATE_ERROR
            /\ results' = NoReport
            /\ UNCHANGED <<built, weeks_shared>>
       ELSE /\ results' = [report_generated |-> TRUE,
                           analysis_df |-> generate_final(config),
                           config |-> config]
            /\ built' = config
            /\ weeks_shared' = TRUE
            /\ error' = NO_ERROR
    /\ conn' = connection_after(config)
    /\ UNCHANGED <<app, ga_data, shopify_data, config, report_counter, call,
                   analysis_reports>>

GenerateFinal ==
    /\ app = "final"
    /\ config.selected_regions # <<>>
    /\ ValidPeriods(config)
    /\ config.campaign_weeks # <<>>
    /\ IF build_raises(config)
       THEN /\ error' = GENERATE_ERROR
            /\ UNCHANGED <<results, built, weeks_shared>>
       ELSE /\ results' = [report_generated |-> TRUE,
                           analysis_df |-> generate_final(config),
                           config |-> config]
            /\ built' = config
            /\ weeks_shared' = TRUE
            /\ error' = NO_ERROR
    /\ conn' = connection_after(config)
    /\ UNCHANGED <<app, ga_data, shopify_data, config, report_counter, call,
                   analysis_reports>>

GenerateMerged_filtering_in_place ==
    /\ app = "merged"
    /\ config.selected_regions # <<>>
    /\ ValidPeriods(config)
    /\ ga_data' = filter_data_by_period(ga_data, "Date", config.base_weeks[1].start,
                                        config.base_weeks[1].end)
    /\ results' = [report_generated |-> TRUE,
                   analysis_df |-> create_analysis_table(config), config |-> config]
    /\ built' = config
    /\ error' = NO_ERROR
    /\ UNCHANGED <<app, shopify_data, config, report_counter, call,
                   analysis_reports, conn, weeks_shared>>

\* merged works on the data frames and keeps no report: results is the
\* table it displays
GenerateMerged ==
    /\ app = "merged"
    /\ config.selected_regions # <<>>
    /\ ValidPeriods(config)
    /\ results' = [report_generated |-> TRUE,
                   analysis_df |-> create_analysis_table(config), config |-> config]
    /\ built' = config
    /\ error' = NO_ERROR
    /\ UNCHANGED <<app, ga_data, shopify_data, config, report_counter, call,
                   analysis_reports, conn, weeks_shared>>

Next == GenerateDuckdb \/ GenerateFinal \/ GenerateMerged

(***************************************************************************)
(* final: the campaign weeks list and its buttons.  The section returns    *)
(* before rendering them when the base week starts after it ends.  The     *)
(* week dates are free date inputs.                                        *)
(***************************************************************************)
WeeksInputRendered ==
    /\ app = "final"
    /\ config.base_weeks[1].start <= config.base_weeks[1].end

\* the date inputs of a new week: a one-day week, or an end before the start
\* append and pop change the section's list in place: a stored config
\* that holds this list changes with it
stored_weeks(new_weeks) ==
    IF weeks_shared THEN [results EXCEPT !.config.campaign_weeks = new_weeks]
    ELSE results

AddWeek ==
    /\ WeeksInputRendered
    /\ Len(config.campaign_weeks) < MaxWeeks
    /\ \E new_week_start \in RowDays : \E new_week_end \in {0, new_week_start} :
          IF new_week_start <= new_week_end
          THEN /\ config' = [config EXCEPT !.campaign_weeks =
                                 Append(@, Period(new_week_start, new_week_end))]
               /\ results' = stored_weeks(config'.campaign_weeks)
               /\ error' = NO_ERROR
          ELSE /\ error' = WEEK_ERROR
               /\ UNCHANGED <<config, results>>
    /\ UNCHANGED <<app, ga_data, shopify_data, report_counter, call,
                   analysis_reports, conn, weeks_shared, built>>

RemoveLastWeek_removing_first ==
    /\ WeeksInputRendered
    /\ config.campaign_weeks # <<>>
    /\ config' = [config EXCEPT !.campaign_weeks = Tail(@)]
    /\ results' = stored_weeks(config'.campaign_weeks)
    /\ error' = NO_ERROR
    /\ UNCHANGED <<app, ga_data, shopify_data, report_counter, call,
                   analysis_reports, conn, weeks_shared, built>>

RemoveLastWeek ==
    /\ WeeksInputRendered
    /\ config.campaign_weeks # <<>>
    /\ config' = [config EXCEPT !.campaign_weeks =
                      SubSeq(@, 1, Len(config.campaign_weeks) - 1)]
    /\ results' = stored_weeks(config'.campaign_weeks)
    /\ error' = NO_ERROR
    /\ UNCHANGED <<app, ga_data, shopify_data, report_counter, call,
                   analysis_reports, conn, weeks_shared, built>>

\* Clear All binds the section's key to a new list: a stored config keeps
\* the old one
ClearAllWeeks ==
    /\ WeeksInputRendered
    /\ config.campaign_weeks # <<>>
    /\ config' = [config EXCEPT !.campaign_weeks = <<>>]
    /\ weeks_shared' = FALSE
    /\ error' = NO_ERROR
    /\ UNCHANGED <<app, ga_data, shopify_data, results, report_counter, call,
                   analysis_reports, conn, built>>

\* the region multiselects come after the period validation (and, in final,
\* after the campaign weeks check); their options are the table's regions
RegionWidgetsRendered ==
    /\ ValidPeriods(config)
    /\ app = "final" => config.campaign_weeks # <<>>

available_regions == {r.Region : r \in ga_data}

SelectRegions ==
    /\ RegionWidgetsRendered
    /\ \E selected_regions \in ListsUpTo(available_regions, 2) :
          /\ selected_regions # config.selected_regions
          /\ config' = [config EXCEPT !.selected_regions = selected_regions]
    /\ error' = NO_ERROR
    /\ UNCHANGED <<app, ga_data, shopify_data, results, report_counter, call,
                   analysis_reports, conn, weeks_shared, built>>

SelectControlRegions ==
    /\ RegionWidgetsRendered
    /\ config.selected_regions # <<>>
    /\ \E control_regions \in ListsUpTo(available_regions, 1) :
          /\ control_regions # config.control_regions
          /\ config' = [config EXCEPT !.control_regions = control_regions]
    /\ error' = NO_ERROR
    /\ UNCHANGED <<app, ga_data, shopify_data, results, report_counter, call,
                   analysis_reports, conn, weeks_shared, built>>

NextSession ==
    \/ GenerateDuckdb \/ GenerateFinal \/ GenerateMerged
    \/ SelectRegions \/ SelectControlRegions

NextWeeks ==
    \/ GenerateDuckdb \/ GenerateFinal \/ GenerateMerged
    \/ AddWeek \/ RemoveLastWeek \/ ClearAllWeeks

\* duckdb and merged have two base weeks and one campaign period and no
\* campaign method widgets; final has one base week and a list of weeks
ConfigsOf(a, Selected, Control, Whitelists, Ms, Ds, Bs, Cs) ==
    IF a = "final"
    THEN {Config(s, c, w, AVERAGE, m, d, <<b>>, <<p>>) :
            s \in Selected, c \in Control, w \in Whitelists, m \in Ms,
            d \in Ds, b \in Bs, p \in Cs}
    ELSE {Config(s, c, w, m, AVERAGE, SEPARATE, <<b, Period(0, 0)>>, <<p>>) :
            s \in Selected, c \in Control, w \in Whitelists, m \in Ms,
            b \in Bs, p \in Cs}

\* min_date, max_date = ga_data['Date'].min(), ga_data['Date'].max()
min_date(ga) == CHOOSE d \in {r.Date : r \in ga} : \A r \in ga : d <= r.Date
max_date(ga) == CHOOSE d \in {r.Date : r \in ga} : \A r \in ga : d >= r.Date

\* date_input(..., min_value=min_date, max_value=max_date)
InDateRange(p, ga) ==
    /\ min_date(ga) <= p.start /\ p.start <= max_date(ga)
    /\ min_date(ga) <= p.end /\ p.end <= max_date(ga)

\* what the sidebar lets the user configure over the uploaded visits table:
\* regions and sources are options read from the table, the date pickers
\* are bounded by the table's date range (the campaign weeks of final are
\* free date inputs), and an empty table ends the script before the widgets
SidebarAllows(a, cfg, ga) ==
    /\ ga # {}
    /\ SeqToSet(cfg.selected_regions) \cup SeqToSet(cfg.control_regions)
           \subseteq {r.Region : r \in ga}
    /\ cfg.google_sources \subseteq {r.Source : r \in ga}
    /\ \A i \in 1..Len(cfg.base_weeks) : InDateRange(cfg.base_weeks[i], ga)
    /\ a # "final" =>
           \A i \in 1..Len(cfg.campaign_weeks) : InDateRange(cfg.campaign_weeks[i], ga)

InitFrom(GaTables, ShopifyTables, Selected, Control, Whitelists, Ms, Ds, Bs, Cs) ==
    /\ app \in Apps
    /\ ga_data \in GaTables
    /\ shopify_data \in ShopifyTables
    /\ config \in {c \in ConfigsOf(app, Selected, Control, Whitelists, Ms, Ds, Bs, Cs) :
                       SidebarAllows(app, c, ga_data)}
    /\ results = NoReport
    /\ report_counter = 0
    /\ call = NoCall
    /\ error = NO_ERROR
    /\ analysis_reports = <<>>
    /\ conn = NO_CONNECTION
    /\ weeks_shared = FALSE
    /\ built = <<>>

\* the control-set inputs: rows of three regions, every control selection
Init ==
    InitFrom(SetsUpTo(GaRows(Regions, {"google"}, {1, MaxSessions}), MaxRows),
             SetsUpTo(ShopifyRows({"West"}, {0}), 1),
             {<<"East">>}, ListsUpTo(Regions, 3), SUBSET {"google"}, {AVERAGE},
             {SEPARATE}, {Period(0, MaxDay - 1)}, {Period(1, MaxDay)})

\* the period inputs: every policy, display method and period
InitPeriods ==
    InitFrom(SetsUpTo(GaRows({"East", "West"}, {"google"}, {MaxSessions}), MaxRows),
             SetsUpTo(ShopifyRows({"East"}, {0}), 1),
             {<<>>, <<"East">>}, {<<>>, <<"West">>}, {{"google"}}, Methods,
             DisplayMethods, Periods, Periods)

\* the filter inputs: every whitelist and period, rows of either source on
\* either day in a target and in a control region
InitFilter ==
    InitFrom(SetsUpTo(GaRows({"East", "West"}, Sources, {MaxSessions}), MaxRows),
             SetsUpTo(ShopifyRows({"East"}, RowDays), 1),
             {<<"East">>}, {<<"West">>}, SUBSET Sources, {AVERAGE}, {SEPARATE},
             Periods, {Period(0, MaxDay)})

\* the selection inputs: rows of two plain regions and of one whose label
\* holds a single quote, every target and control selection
QuotedRegions == {"East", "West", ONEIL}

InitOrder ==
    InitFrom(SetsUpTo(GaRows(QuotedRegions, {"google"}, {MaxSessions}), MaxRows),
             {{}}, ListsUpTo(QuotedRegions, 3), ListsUpTo(QuotedRegions, 2),
             {{"google"}}, {AVERAGE}, {SEPARATE}, {Period(0, 0)}, {Period(0, MaxDay)})

\* final starts with an empty campaign weeks list
WithoutWeeks(a, cfg) ==
    IF a = "final" THEN [cfg EXCEPT !.campaign_weeks = <<>>] ELSE cfg

InitWithoutWeeks(GaTables, Selected, Control, Ms, Ds, Bs, Cs) ==
    /\ app \in Apps
    /\ ga_data \in GaTables
    /\ shopify_data = {}
    /\ config \in {WithoutWeeks(app, c) :
                       c \in {d \in ConfigsOf(app, Selected, Control, {{"google"}},
                                               Ms, Ds, Bs, Cs) :
                                 SidebarAllows(app, d, ga_data)}}
    /\ results = NoReport
    /\ report_counter = 0
    /\ call = NoCall
    /\ error = NO_ERROR
    /\ analysis_reports = <<>>
    /\ conn = NO_CONNECTION
    /\ weeks_shared = FALSE
    /\ built = <<>>

\* the campaign weeks inputs: 100 visits on the first day and 300 on the
\* last, every calculation and display method, weeks added one by one
InitCampaignWeeks ==
    InitWithoutWeeks(
        {t \in SetsUpTo(GaRows({"East", "West"}, {"google"}, {100, 300}), MaxRows) :
            /\ \A r \in t : (r.Date = 0) <=> (r.Sessions = 100)
            /\ \A d \in RowDays : \E r \in t : r.Region = "East" /\ r.Date = d
            /\ Cardinality(t) = 3},
        {<<"East">>}, {<<"West">>}, Methods, DisplayMethods,
        {Period(0, 0)}, {Period(0, MaxDay)})

\* the validation inputs: periods that start after they end, an empty
\* target selection, weeks added one by one
InitValidation ==
    InitWithoutWeeks(
        SetsUpTo(GaRows({"East"}, {"google"}, {MaxSessions}), MaxRows),
        {<<>>, <<"East">>}, {<<>>}, Methods, {SEPARATE},
        {Period(0, MaxDay), Period(MaxDay, 0), Period(0, 0)},
        {Period(0, MaxDay), Period(MaxDay, 0), Period(0, 0)})

\* the session inputs: one visits row for East and one for a region whose
\* label holds a quote, selections changed between the builds
InitSession ==
    InitFrom({t \in SetsUpTo(GaRows({"East", ONEIL}, {"google"}, {MaxSessions}), MaxRows) :
                  {r.Region : r \in t} = {"East", ONEIL}},
             {{}}, {<<"East">>}, {<<>>}, {{"google"}}, {AVERAGE}, {SEPARATE},
             {Period(0, 0)}, {Period(0, MaxDay)})

\* the control-list inputs: rows of three regions, control lists that hold
\* the selected region or not, with and without whitelist and sales
InitControl ==
    InitFrom(SetsUpTo(GaRows(Regions, {"google"}, {MaxSessions}), MaxRows),
             SetsUpTo(ShopifyRows({"West"}, {0}), 1),
             {<<"East">>}, ListsUpTo(Regions, 3), SUBSET {"google"}, {AVERAGE},
             {SEPARATE}, {Period(0, MaxDay - 1)}, {Period(1, MaxDay)})

Spec == Init /\ [][Next]_vars

SpecControl == InitControl /\ [][Next]_vars

SpecSession == InitSession /\ [][NextSession]_vars

SpecValidation == InitValidation /\ [][NextWeeks]_vars

SpecCampaignWeeks == InitCampaignWeeks /\ [][NextWeeks]_vars

SpecOrder == InitOrder /\ [][Next]_vars

SpecPeriods == InitPeriods /\ [][Next]_vars

SpecFilter == InitFilter /\ [][Next]_vars

(***************************************************************************)
(* The pure functions on their own: one call, its arguments and result.    *)
(***************************************************************************)
InitCall ==
    /\ app \in Apps
    /\ ga_data = {}
    /\ shopify_data = {}
    /\ config = Config(<<>>, <<>>, {}, AVERAGE, AVERAGE, SEPARATE, <<>>, <<>>)
    /\ results = NoReport
    /\ report_counter = 0
    /\ call = NoCall
    /\ error = NO_ERROR
    /\ analysis_reports = <<>>
    /\ conn = NO_CONNECTION
    /\ weeks_shared = FALSE
    /\ built = <<>>

\* each script calls its own calculate_weeks_in_period
weeks_in_period_of(a, start_date, end_date) ==
    IF a = "merged" THEN calculate_weeks_in_period_merged(start_date, end_date)
    ELSE calculate_weeks_in_period(start_date, end_date)

CallWeeks ==
    /\ call = NoCall
    /\ \E s \in 0..MaxDate, e \in 0..MaxDate :
          /\ s <= e
          /\ call' = [fn |-> "calculate_weeks_in_period", start |-> s, end |-> e,
                      ret |-> weeks_in_period_of(app, s, e)]
    /\ UNCHANGED <<app, ga_data, shopify_data, config, results, report_counter, error,
                   analysis_reports, conn, weeks_shared, built>>

SpecWeeks == InitCall /\ [][CallWeeks]_vars

\* metric values: small fractions of either sign, and the values 50, 100, 150
ChangeInputs ==
    {Rat(n, d) : n \in (-MaxValue..MaxValue) \cup {50, 100, 150}, d \in 1..MaxDenominator}

CallChange ==
    /\ call = NoCall
    /\ \E b \in ChangeInputs, c \in ChangeInputs :
          call' = [fn |-> "calculate_percentage_change", base |-> b, campaign |-> c,
                   ret |-> calculate_percentage_change(b, c)]
    /\ UNCHANGED <<app, ga_data, shopify_data, config, results, report_counter, error,
                   analysis_reports, conn, weeks_shared, built>>

SpecChange == InitCall /\ [][CallChange]_vars

(***************************************************************************)
(* Vocabulary of the properties.                                           *)
(***************************************************************************)
Generated == results.report_generated
Rows == results.analysis_df
IsControl(row) == row.Region = CONTROL_SET

\* the regions a row aggregates and how many they are
RegionsOfRow(cfg, row) ==
    IF IsControl(row) THEN SeqToSet(cfg.control_regions) ELSE {row.Region}

RegionCountOfRow(cfg, row) == IF IsControl(row) THEN Len(cfg.control_regions) ELSE 1

\* raw sums over the rows of the regions S dated within [p.start, p.end]
RawTotal(S, p) ==
    SumField({r \in ga_data : r.Region \in S /\ p.start <= r.Date /\ r.Date <= p.end},
             "Sessions")

RawFiltered(S, p, whitelist) ==
    SumField({r \in ga_data : /\ r.Region \in S
                              /\ p.start <= r.Date /\ r.Date <= p.end
                              /\ r.Source \in whitelist}, "Sessions")

RawRevenue(S, p) ==
    SumField({r \in shopify_data : r.Region \in S /\ p.start <= r.Day /\ r.Day <= p.end},
             "Net_sales")

\* the three raw sums divided once by `by`
RawOver(S, p, whitelist, by) ==
    Metrics(RDiv(RInt(RawTotal(S, p)), by), RDiv(RInt(RawFiltered(S, p, whitelist)), by),
            RDiv(RInt(RawRevenue(S, p)), by))

\* the divisor a script applies to a period in a role
DivisorOf(a, cfg, role, p) ==
    IF a = "merged"
    THEN (IF role = "base" THEN base_divisor_merged(cfg, p)
          ELSE campaign_divisor_merged(cfg, p))
    ELSE IF role = "base" THEN base_divisor(cfg, p)
    ELSE IF a = "final" THEN campaign_divisor_final(cfg, p)
    ELSE campaign_divisor(cfg, p)

\* the policy (Average or Sum) the configuration selects
PolicyOf(a, cfg) ==
    IF a = "final" THEN cfg.campaign_calculation_method ELSE cfg.base_week_method

ControlRow == Rows[Len(Rows)]

(***************************************************************************)
(* C1: the control-set value of every metric and period is the raw sum     *)
(* over all rows of all control regions in the period, divided once by     *)
(* (number of control regions x the period's divisor).                     *)
(***************************************************************************)
C1_ControlExpected(cfg, role, p) ==
    RawOver(SeqToSet(cfg.control_regions), p, cfg.google_sources,
            RMul(RInt(Len(cfg.control_regions)), DivisorOf(app, cfg, role, p)))

C1_ControlSumThenDivide ==
    (Generated /\ results.config.control_regions # <<>>) =>
        LET cfg == results.config
        IN  /\ Len(Rows) >= 1
            /\ IsControl(ControlRow)
            /\ \A i \in 1..Len(cfg.base_weeks) :
                   ControlRow.Base[i] = C1_ControlExpected(cfg, "base", cfg.base_weeks[i])
            /\ Len(ControlRow.Campaign) = Len(cfg.campaign_weeks)
            /\ \A j \in 1..Len(cfg.campaign_weeks) :
                   ControlRow.Campaign[j] =
                       C1_ControlExpected(cfg, "campaign", cfg.campaign_weeks[j])

\* three control regions, two of them with rows in the base week
C1_Witness ==
    /\ Generated
    /\ Len(results.config.control_regions) = 3
    /\ RawTotal({"East"}, results.config.base_weeks[1]) = 1
    /\ RawTotal({"North"}, results.config.base_weeks[1]) = 2
    /\ ControlRow.Base[1].Sessions_Total = Rat(3, 3 * 2)

(***************************************************************************)
(* C2 as claimed: with unequal per-region volumes, sum / (count x divisor) *)
(* differs from the average over the control regions of value / divisor.   *)
(***************************************************************************)
MeanOfShares(control_regions, p, divisor) ==
    RDiv(RSum([i \in 1..Len(control_regions) |->
                  RDiv(RInt(RawTotal({control_regions[i]}, p)), divisor)]),
         RInt(Len(control_regions)))

UnequalVolumes(control_regions, p) ==
    \A i, j \in 1..Len(control_regions) :
        i # j => RawTotal({control_regions[i]}, p) # RawTotal({control_regions[j]}, p)

C2_SumDiffersFromMean ==
    (/\ Generated
     /\ Len(results.config.control_regions) = 3
     /\ UnequalVolumes(results.config.control_regions, results.config.base_weeks[1]))
    => ControlRow.Base[1].Sessions_Total #
           MeanOfShares(results.config.control_regions, results.config.base_weeks[1],
                        DivisorOf(app, results.config, "base", results.config.base_weeks[1]))

(***************************************************************************)
(* C2 amended: the control-set total of every period, sum / (count x       *)
(* divisor), equals the average over the control regions of each region's  *)
(* value / divisor, also with unequal per-region volumes.                  *)
(***************************************************************************)
C2_SumEqualsMean ==
    (Generated /\ results.config.control_regions # <<>>) =>
        LET cfg == results.config
        IN  /\ \A i \in 1..Len(cfg.base_weeks) :
                   ControlRow.Base[i].Sessions_Total =
                       MeanOfShares(cfg.control_regions, cfg.base_weeks[i],
                                    DivisorOf(app, cfg, "base", cfg.base_weeks[i]))
            /\ \A j \in 1..Len(ControlRow.Campaign) :
                   ControlRow.Campaign[j].Sessions_Total =
                       MeanOfShares(cfg.control_regions, cfg.campaign_weeks[j],
                                    DivisorOf(app, cfg, "campaign", cfg.campaign_weeks[j]))

\* three control regions with pairwise different volumes in the base week
C2_Witness ==
    /\ Generated
    /\ app = "duckdb"
    /\ Len(results.config.control_regions) = 3
    /\ UnequalVolumes(results.config.control_regions, results.config.base_weeks[1])
    /\ ControlRow.Base[1].Sessions_Total # RInt(0)

(***************************************************************************)
(* C3: every base value of every row is the raw sum of the row's regions   *)
(* in the base period divided by that period's week count (times the       *)
(* number of regions the row aggregates), whatever policy is selected.     *)
(***************************************************************************)
C3_BaseAlwaysWeekCount ==
    Generated =>
        LET cfg == results.config
        IN  \A k \in 1..Len(Rows) : \A i \in 1..Len(cfg.base_weeks) :
                Rows[k].Base[i] =
                    RawOver(RegionsOfRow(cfg, Rows[k]), cfg.base_weeks[i], cfg.google_sources,
                            RMul(RInt(RegionCountOfRow(cfg, Rows[k])),
                                 weeks_in_period_of(app, cfg.base_weeks[i].start,
                                                    cfg.base_weeks[i].end)))

(***************************************************************************)
(* C4: every campaign value of every row (target or control set) is the    *)
(* raw sum divided by 1 under the Sum policy and by the period's week count *)
(* under the Average policy.                                               *)
(***************************************************************************)
C4_PolicyDivisor(a, cfg, p) ==
    IF PolicyOf(a, cfg) = SUM_TOTAL THEN RInt(1)
    ELSE weeks_in_period_of(a, p.start, p.end)

C4_CampaignDivisorByPolicy ==
    Generated =>
        LET cfg == results.config
        IN  \A k \in 1..Len(Rows) : \A j \in 1..Len(Rows[k].Campaign) :
                Rows[k].Campaign[j] =
                    RawOver(RegionsOfRow(cfg, Rows[k]), cfg.campaign_weeks[j],
                            cfg.google_sources,
                            RMul(RInt(RegionCountOfRow(cfg, Rows[k])),
                                 C4_PolicyDivisor(app, cfg, cfg.campaign_weeks[j])))

(***************************************************************************)
(* C5: the week count of a period of `days` days (days >= 1) is a whole    *)
(* number, at least 1, equal to 1 for a single day, and the integer        *)
(* nearest to days / 7 whenever that integer is at least 1.                *)
(***************************************************************************)
C5_WeekCountIsRoundedAndClamped ==
    call.fn = "calculate_weeks_in_period" =>
        LET days == call.end - call.start + 1
            w == call.ret
        IN  /\ RIsInt(w)
            /\ w[1] >= 1
            /\ (days = 1 => w[1] = 1)
            /\ (2 * days < DaysPerWeek => w[1] = 1)
            /\ (2 * days > DaysPerWeek => 2 * Abs(DaysPerWeek * w[1] - days) < DaysPerWeek)

(***************************************************************************)
(* C6: the change calculator returns "not applicable" exactly when base    *)
(* and campaign are both 0, and "infinite increase" exactly when base is 0 *)
(* and campaign is not 0 (of either sign).                                 *)
(***************************************************************************)
C6_Sentinels ==
    call.fn = "calculate_percentage_change" =>
        /\ call.ret = NOT_APPLICABLE <=> (call.base[1] = 0 /\ call.campaign[1] = 0)
        /\ call.ret = INFINITE <=> (call.base[1] = 0 /\ call.campaign[1] # 0)

\* base 0 and a negative campaign value
C6_Witness ==
    /\ call.fn = "calculate_percentage_change"
    /\ call.base[1] = 0
    /\ call.campaign[1] < 0
    /\ call.ret = INFINITE

(***************************************************************************)
(* The renderings "<sign><integer part>.<one digit>%" of the tenths        *)
(* nearest to |p / q| (both neighbours when p / q lies half way).          *)
(***************************************************************************)
Renderings(sign, p, q) ==
    LET lo == (10 * Abs(p)) \div q
    IN  {sign \o ToString(t \div 10) \o "." \o ToString(t % 10) \o "%" :
            t \in {u \in {lo, lo + 1} : 2 * Abs(10 * Abs(p) - u * q) <= q}}

\* ((campaign - base) / base) * 100 as p / q with q > 0
ChangeOf(base, campaign) ==
    Rat((campaign[1] * base[2] - base[1] * campaign[2]) * 100 * base[2],
        base[2] * campaign[2] * base[1])

(***************************************************************************)
(* C7 as claimed: for base # 0 the result is the change rendered with its  *)
(* sign and one decimal digit; change(100, 150) = "+50.0%", change(100,    *)
(* 50) = "-50.0%", and equal base and campaign give "+0.0%".               *)
(***************************************************************************)
C7_EqualGivesPlusZero ==
    (call.fn = "calculate_percentage_change" /\ call.base[1] # 0) =>
        LET change == ChangeOf(call.base, call.campaign)
        IN  /\ call.ret \in Renderings(IF change[1] < 0 THEN "-" ELSE "+",
                                       change[1], change[2])
            /\ (call.base = call.campaign => call.ret = "+0.0%")

(***************************************************************************)
(* C7 amended: for base # 0 the result is the change rendered with its     *)
(* sign and one decimal digit; change(100, 150) = "+50.0%", change(100,    *)
(* 50) = "-50.0%"; equal base and campaign give "+0.0%" for a positive     *)
(* base and "-0.0%" for a negative base.                                   *)
(***************************************************************************)
C7_SignedOneDecimal ==
    (call.fn = "calculate_percentage_change" /\ call.base[1] # 0) =>
        LET change == ChangeOf(call.base, call.campaign)
            minus == change[1] < 0 \/ (change[1] = 0 /\ call.base[1] < 0)
        IN  /\ call.ret \in Renderings(IF minus THEN "-" ELSE "+", change[1], change[2])
            /\ (call.base = RInt(100) /\ call.campaign = RInt(150) => call.ret = "+50.0%")
            /\ (call.base = RInt(100) /\ call.campaign = RInt(50) => call.ret = "-50.0%")
            /\ (call.base = call.campaign /\ call.base[1] > 0 => call.ret = "+0.0%")
            /\ (call.base = call.campaign /\ call.base[1] < 0 => call.ret = "-0.0%")

\* change(100, 150)
C7_Witness ==
    /\ call.fn = "calculate_percentage_change"
    /\ call.base = RInt(100)
    /\ call.campaign = RInt(150)
    /\ call.ret = "+50.0%"

(***************************************************************************)
(* C8: a report built with an empty control selection has no "Control set" *)
(* row; one built with a non-empty control selection has exactly one.      *)
(***************************************************************************)
ControlRowCount == Cardinality({k \in 1..Len(Rows) : IsControl(Rows[k])})

C8_ControlRowIffControlRegions ==
    Generated =>
        ControlRowCount = (IF results.config.control_regions = <<>> THEN 0 ELSE 1)

\* an empty control selection over tables that hold rows: one target row
C8_Witness ==
    /\ Generated
    /\ results.config.control_regions = <<>>
    /\ ga_data # {}
    /\ Len(Rows) = 1
    /\ ControlRowCount = 0

(***************************************************************************)
(* C9: with an empty whitelist the filtered-visits value of every row      *)
(* (regions and control set) and every period is 0.                        *)
(***************************************************************************)
C9_EmptyWhitelistFilteredZero ==
    (Generated /\ results.config.google_sources = {}) =>
        \A k \in 1..Len(Rows) :
            /\ \A i \in 1..Len(Rows[k].Base) : Rows[k].Base[i].Sessions_Google = RInt(0)
            /\ \A j \in 1..Len(Rows[k].Campaign) :
                   Rows[k].Campaign[j].Sessions_Google = RInt(0)

\* an empty whitelist, a target and a control row that both have visits
C9_Witness ==
    /\ Generated
    /\ results.config.google_sources = {}
    /\ Len(Rows) = 2
    /\ IsControl(Rows[2])
    /\ \A k \in 1..2 : Rows[k].Campaign[1].Sessions_Total # RInt(0)
    /\ \E r \in ga_data : r.Source = "google"

(***************************************************************************)
(* C10: the values of a target region for a period are the sums over       *)
(* exactly the rows of that region dated from the period's start day to    *)
(* its end day, both included, the filtered value over those of them whose *)
(* source is in the whitelist (each divided by the period's divisor).      *)
(***************************************************************************)
C10_InclusiveRegionPeriodRows ==
    Generated =>
        LET cfg == results.config
        IN  \A k \in 1..Len(Rows) :
                ~IsControl(Rows[k]) =>
                    /\ \A i \in 1..Len(cfg.base_weeks) :
                           Rows[k].Base[i] =
                               RawOver({Rows[k].Region}, cfg.base_weeks[i], cfg.google_sources,
                                       DivisorOf(app, cfg, "base", cfg.base_weeks[i]))
                    /\ \A j \in 1..Len(Rows[k].Campaign) :
                           Rows[k].Campaign[j] =
                               RawOver({Rows[k].Region}, cfg.campaign_weeks[j],
                                       cfg.google_sources,
                                       DivisorOf(app, cfg, "campaign", cfg.campaign_weeks[j]))

\* base week [1, MaxDay]: a whitelisted row on the day before the start is
\* left out, a row on the end day that is not whitelisted is counted
C10_Witness ==
    /\ Generated
    /\ results.config.base_weeks[1] = Period(1, MaxDay)
    /\ {r \in ga_data : r.Region = "East"} =
           {[Region |-> "East", Date |-> 0, Source |-> "google",
             Sessions |-> MaxSessions],
            [Region |-> "East", Date |-> MaxDay, Source |-> "direct",
             Sessions |-> MaxSessions]}
    /\ results.config.google_sources = {"google"}
    /\ Rows[1].Region = "East"
    /\ Rows[1].Base[1].Sessions_Total =
           RDiv(RInt(MaxSessions), DivisorOf(app, results.config, "base", Period(1, MaxDay)))
    /\ Rows[1].Base[1].Sessions_Google = RInt(0)

(***************************************************************************)
(* C11: the target regions of a report are exactly the selected regions    *)
(* that are not control regions, in the relative order of the selection;   *)
(* each has exactly one row and no control region has a row of its own.    *)
(***************************************************************************)
IndexOf(x, seq) == CHOOSE i \in 1..Len(seq) : seq[i] = x

TargetRows == SelectSeq(Rows, LAMBDA r : ~IsControl(r))

C11_TargetsAreSelectedMinusControl ==
    Generated =>
        LET cfg == results.config
            wanted == SeqToSet(cfg.selected_regions) \ SeqToSet(cfg.control_regions)
        IN  /\ {TargetRows[k].Region : k \in 1..Len(TargetRows)} = wanted
            /\ Len(TargetRows) = Cardinality(wanted)
            /\ \A k, l \in 1..Len(TargetRows) :
                   k < l => IndexOf(TargetRows[k].Region, cfg.selected_regions)
                              < IndexOf(TargetRows[l].Region, cfg.selected_regions)

\* three selected regions, the middle one also a control region
C11_Witness ==
    /\ Generated
    /\ results.config.selected_regions = <<"West", ONEIL, "East">>
    /\ results.config.control_regions = <<ONEIL>>
    /\ Len(TargetRows) = 2
    /\ TargetRows[1].Region = "West"
    /\ TargetRows[2].Region = "East"

PerPeriodValues(cfg, row) ==
    [j \in 1..Len(cfg.campaign_weeks) |->
        RawOver(RegionsOfRow(cfg, row), cfg.campaign_weeks[j], cfg.google_sources,
                RMul(RInt(RegionCountOfRow(cfg, row)),
                     DivisorOf(app, cfg, "campaign", cfg.campaign_weeks[j])))]

\* built is the configuration handed to the build of the stored report: the
\* stored config's list of campaign weeks can change after the build
SumOfValues(values, m) == RSum([j \in 1..Len(values) |-> values[j][m]])

C14_SeparateOneCellPerPeriod ==
    (Generated /\ built.campaign_display_method = SEPARATE) =>
        LET cfg == built
            N == Len(cfg.campaign_weeks)
        IN  \A k \in 1..Len(Rows) :
                /\ Len(Rows[k].Campaign) = N
                /\ Rows[k].Campaign = PerPeriodValues(cfg, Rows[k])
                /\ Rows[k].Combined = <<>>
                /\ Rows[k].Change_Combined = <<>>
                /\ \A b \in 1..Len(Rows[k].Base) :
                       /\ Len(Rows[k].Change[b]) = N
                       /\ \A i \in 1..N : \A m \in MetricNames :
                              Rows[k].Change[b][i][m] =
                                  calculate_percentage_change(Rows[k].Base[b][m],
                                                              Rows[k].Campaign[i][m])

\* two campaign weeks, a target and the control-set row with two cells each
C14_Witness ==
    /\ Generated
    /\ app = "final"
    /\ built.campaign_display_method = SEPARATE
    /\ Len(built.campaign_weeks) = 2
    /\ Len(Rows) = 2
    /\ IsControl(Rows[2])
    /\ \A k \in 1..2 : Len(Rows[k].Campaign) = 2
    /\ Rows[1].Change[1][1].Sessions_Total # Rows[1].Change[1][2].Sessions_Total

(***************************************************************************)
(* C15: for every row and period, when no visits row of the row's regions  *)
(* lies in the period the total and filtered values are 0, when no sales   *)
(* row does the revenue is 0; no error is shown and every target region    *)
(* has its row.                                                            *)
(***************************************************************************)
NoVisitsRows(S, p) ==
    {r \in ga_data : r.Region \in S /\ p.start <= r.Date /\ r.Date <= p.end} = {}

NoSalesRows(S, p) ==
    {r \in shopify_data : r.Region \in S /\ p.start <= r.Day /\ r.Day <= p.end} = {}

ZeroWhereNoRows(S, p, value) ==
    /\ NoVisitsRows(S, p) =>
           (value.Sessions_Total = RInt(0) /\ value.Sessions_Google = RInt(0))
    /\ NoSalesRows(S, p) => value.Net_Sales = RInt(0)

C15_NoRowsGiveZeros ==
    Generated =>
        LET cfg == results.config
        IN  /\ error = NO_ERROR
            /\ \A t \in SeqToSet(cfg.selected_regions) \ SeqToSet(cfg.control_regions) :
                   \E k \in 1..Len(Rows) : Rows[k].Region = t
            /\ \A k \in 1..Len(Rows) :
                   /\ \A i \in 1..Len(cfg.base_weeks) :
                          ZeroWhereNoRows(RegionsOfRow(cfg, Rows[k]), cfg.base_weeks[i],
                                          Rows[k].Base[i])
                   /\ \A j \in 1..Len(Rows[k].Campaign) :
                          ZeroWhereNoRows(RegionsOfRow(cfg, Rows[k]), cfg.campaign_weeks[j],
                                          Rows[k].Campaign[j])

\* a target with visits only outside the campaign period and a control set
\* without any sales row
C15_Witness ==
    /\ Generated
    /\ app = "duckdb"
    /\ Len(Rows) = 2
    /\ Rows[1].Region = "East"
    /\ IsControl(Rows[2])
    /\ \E r \in ga_data : r.Region = "East"
    /\ NoVisitsRows({"East"}, results.config.campaign_weeks[1])
    /\ Rows[1].Campaign[1].Sessions_Total = RInt(0)
    /\ Rows[1].Base[1].Sessions_Total # RInt(0)
    /\ {r \in shopify_data : r.Region = "West"} = {}
    /\ Rows[2].Base[1].Net_Sales = RInt(0)

(***************************************************************************)
(* C16: a build that fails for one region or for the control set stores    *)
(* nothing (the stored report is the one from before the click), and every *)
(* stored report holds all its rows: one per target region and the control *)
(* set row when control regions are configured.                            *)
(***************************************************************************)
ReportComplete(report) ==
    LET cfg == report.config
    IN  Len(report.analysis_df) =
            Cardinality(SeqToSet(cfg.selected_regions) \ SeqToSet(cfg.control_regions))
                + (IF cfg.control_regions # <<>> THEN 1 ELSE 0)

C16_FailedBuildStoresNothing ==
    [][/\ error' = GENERATE_ERROR => results' = results
       /\ results'.report_generated => ReportComplete(results')]_vars

\* the first target's statements run, the second target's raise
C16_Witness ==
    /\ error = GENERATE_ERROR
    /\ app = "duckdb"
    /\ config.selected_regions = <<"East", ONEIL>>
    /\ config.control_regions = <<>>
    /\ ~Generated

(***************************************************************************)
(* C17: a configuration with an empty target selection or with a period    *)
(* that starts after it ends is reported by a validation message, no       *)
(* report is ever built from one, and the report changes only under a      *)
(* configuration without such an error.                                    *)
(***************************************************************************)
ConfigError(cfg) ==
    \/ cfg.selected_regions = <<>>
    \/ \E i \in 1..Len(cfg.base_weeks) : cfg.base_weeks[i].start > cfg.base_weeks[i].end
    \/ \E j \in 1..Len(cfg.campaign_weeks) :
           cfg.campaign_weeks[j].start > cfg.campaign_weeks[j].end

C17_ConfigErrorsBlockAggregation ==
    /\ [](ConfigError(config) => validation_message(app, config) # NO_ERROR)
    /\ [](Generated => ~ConfigError(results.config))
    /\ [][results' # results => ~ConfigError(config)]_vars

\* a campaign week that starts after it ends was refused: the list is still
\* empty, the message is on screen and there is no report
C17_Witness ==
    /\ app = "final"
    /\ error = WEEK_ERROR
    /\ config.campaign_weeks = <<>>
    /\ config.selected_regions # <<>>
    /\ validation_message(app, config) = "Please add at least one campaign week."
    /\ ~Generated

HasQuotedLabel(cfg) ==
    \E r \in SeqToSet(cfg.selected_regions) \cup SeqToSet(cfg.control_regions) :
        QuoteCount(r) > 0

C20_QuotedLabelsFilterExactly ==
    /\ HasQuotedLabel(config) => error # GENERATE_ERROR
    /\ Generated =>
           LET cfg == results.config
           IN  \A k \in 1..Len(Rows) :
                   (~IsControl(Rows[k]) /\ QuoteCount(Rows[k].Region) > 0) =>
                       /\ \A i \in 1..Len(cfg.base_weeks) :
                              Rows[k].Base[i] =
                                  RawOver({Rows[k].Region}, cfg.base_weeks[i],
                                          cfg.google_sources,
                                          DivisorOf(app, cfg, "base", cfg.base_weeks[i]))
                       /\ \A j \in 1..Len(Rows[k].Campaign) :
                              Rows[k].Campaign[j] =
                                  RawOver({Rows[k].Region}, cfg.campaign_weeks[j],
                                          cfg.google_sources,
                                          DivisorOf(app, cfg, "campaign",
                                                    cfg.campaign_weeks[j]))

(***************************************************************************)
(* C21: the store of generated reports (the list of reports of the         *)
(* multi-report application, the stored report of a section) only grows:   *)
(* whenever it changes it holds exactly one more report, and the reports   *)
(* it held before are still there, unchanged and in the same places.       *)
(***************************************************************************)
StoredReports ==
    IF app = "duckdb" THEN analysis_reports
    ELSE IF results.report_generated THEN <<results>> ELSE <<>>

C21_StoreAppendOnly ==
    [][(app # "merged" /\ StoredReports' # StoredReports) =>
           /\ Len(StoredReports') = Len(StoredReports) + 1
           /\ SubSeq(StoredReports', 1, Len(StoredReports)) = StoredReports]_vars

(***************************************************************************)
(* C22: once a section has stored its report, a step that changes the      *)
(* section's list of campaign weeks (Add Week, Remove Last Week, Clear All *)
(* Weeks) leaves the stored configuration, its list of campaign weeks      *)
(* included, unchanged.                                                    *)
(***************************************************************************)
C22_StoredConfigImmutable ==
    [][(/\ app = "final"
        /\ results.report_generated
        /\ config'.campaign_weeks # config.campaign_weeks)
       => results'.config = results.config]_vars

(***************************************************************************)
(* C23: for the control list and every period of a built report, the raw   *)
(* sums of the one batched statement over the control regions equal the    *)
(* sums of the per-region filter-then-sum results added up region by       *)
(* region, the two control-set computations give the same values under the *)
(* same divisor, and the control-set row of the report holds these values. *)
(***************************************************************************)
BatchedControlSums(control_regions, period, google_sources) ==
    LET ga == ga_control_query(control_regions, period, google_sources)
        shopify == shopify_control_query(control_regions, period)
    IN  Metrics(OrZero(ga[1]), OrZero(ga[2]), OrZero(shopify[1]))

C23_BatchedEqualsPerRegion ==
    (Generated /\ results.config.control_regions # <<>>) =>
        LET cfg == results.config
            control == Rows[Len(Rows)]
        IN  /\ Len(Rows) >= 1
            /\ IsControl(control)
            /\ \A i \in 1..Len(cfg.base_weeks) :
                   LET p == cfg.base_weeks[i]
                       d == DivisorOf(app, cfg, "base", p)
                   IN  /\ BatchedControlSums(cfg.control_regions, p, cfg.google_sources)
                          = control_sums_merged(cfg.control_regions, p, cfg.google_sources)
                       /\ control.Base[i]
                          = control_metrics(cfg.control_regions, p, cfg.google_sources, d)
                       /\ control.Base[i]
                          = control_metrics_merged(cfg.control_regions, p,
                                                   cfg.google_sources, d)
            /\ \A j \in 1..Len(cfg.campaign_weeks) :
                   LET p == cfg.campaign_weeks[j]
                       d == DivisorOf(app, cfg, "campaign", p)
                   IN  /\ BatchedControlSums(cfg.control_regions, p, cfg.google_sources)
                          = control_sums_merged(cfg.control_regions, p, cfg.google_sources)
                       /\ control.Campaign[j]
                          = control_metrics(cfg.control_regions, p, cfg.google_sources, d)
                       /\ control.Campaign[j]
                          = control_metrics_merged(cfg.control_regions, p,
                                                   cfg.google_sources, d)

\* a batched control row over three regions, two of them with visits in the
\* base week and sales in one
C23_Witness ==
    /\ Generated
    /\ app = "duckdb"
    /\ Len(results.config.control_regions) = 3
    /\ Cardinality({r.Region : r \in {x \in ga_data :
                        InPeriod(x.Date, results.config.base_weeks[1])}}) = 2
    /\ shopify_data # {}
    /\ BatchedControlSums(results.config.control_regions, results.config.base_weeks[1],
                          results.config.google_sources).Sessions_Google > 1

(***************************************************************************)
(* C24: in the multi-report application report_counter equals the number   *)
(* of stored reports, and the i-th stored report carries the id i.         *)
(***************************************************************************)
C24_CounterCountsReports ==
    app = "duckdb" =>
        /\ report_counter = Len(analysis_reports)
        /\ \A i \in 1..Len(analysis_reports) : analysis_reports[i].id = i

\* a build that raised after a first report was stored
C24_Witness ==
    /\ app = "duckdb"
    /\ error = GENERATE_ERROR
    /\ Len(analysis_reports) = 1
    /\ report_counter = 1
    /\ analysis_reports[1].config # config

(***************************************************************************)
(* C25: a step that ends with the build's error on screen leaves the       *)
(* report store as it was: the same counter, the same list of reports, the *)
(* same stored report of the section.                                      *)
(***************************************************************************)
C25_FailedBuildKeepsStore ==
    [][error' = GENERATE_ERROR =>
           /\ report_counter' = report_counter
           /\ analysis_reports' = analysis_reports
           /\ results' = results
           /\ built' = built]_vars

\* a section whose build raised and whose earlier report is still stored
C25_Witness ==
    /\ app = "final"
    /\ error = GENERATE_ERROR
    /\ Generated
    /\ build_raises(config)
    /\ ~build_raises(results.config)
    /\ Len(Rows) = 1

(***************************************************************************)
(* C26: after every generate action, whether it succeeded or raised, the   *)
(* connection the action opened is closed.                                 *)
(***************************************************************************)
C26_ConnectionClosed == conn # OPEN

(***************************************************************************)
(* C27: every campaign week of a section's list starts no later than it    *)
(* ends; a step that shows the week error leaves the list unchanged; a     *)
(* step that shortens the list removes its last week or empties it; a step *)
(* that lengthens it appends one week and keeps the others.                *)
(***************************************************************************)
Weeks == config.campaign_weeks

C27_WeekListWellFormed ==
    /\ [](app = "final" => \A j \in 1..Len(Weeks) : Weeks[j].start <= Weeks[j].end)
    /\ [][app = "final" =>
             /\ error' = WEEK_ERROR => Weeks' = Weeks
             /\ Len(Weeks') < Len(Weeks) =>
                    (Weeks' = SubSeq(Weeks, 1, Len(Weeks) - 1) \/ Weeks' = <<>>)
             /\ Len(Weeks') > Len(Weeks) =>
                    (Len(Weeks') = Len(Weeks) + 1
                        /\ SubSeq(Weeks', 1, Len(Weeks)) = Weeks)
             /\ Len(Weeks') = Len(Weeks) => Weeks' = Weeks]_vars

\* a week with its end before its start was refused: the list still holds
\* the one week added before
C27_Witness ==
    /\ app = "final"
    /\ error = WEEK_ERROR
    /\ Weeks = <<Period(MaxDay, MaxDay)>>

(***************************************************************************)
(* C28: the multi-period build never runs on an empty list of campaign     *)
(* weeks: a section with an empty list shows the warning, its stored       *)
(* report does not change, and every stored report was built from at least *)
(* one week and has one campaign cell per week of its build (Separate) or  *)
(* one combined cell (Combined).                                           *)
(***************************************************************************)
C28_NoBuildWithoutWeeks ==
    /\ []((app = "final" /\ WeeksInputRendered /\ Weeks = <<>>) =>
              validation_message(app, config) = "Please add at least one campaign week.")
    /\ []((app = "final" /\ Generated) =>
              /\ built.campaign_weeks # <<>>
              /\ \A k \in 1..Len(Rows) :
                     IF built.campaign_display_method = SEPARATE
                     THEN Len(Rows[k].Campaign) = Len(built.campaign_weeks)
                     ELSE Len(Rows[k].Combined) = 1)
    /\ [][(app = "final" /\ Weeks = <<>>) =>
              (built' = built /\ results'.analysis_df = results.analysis_df)]_vars

\* a section with a Combined/Average report whose list was cleared afterwards
C28_Witness ==
    /\ app = "final"
    /\ Generated
    /\ Weeks = <<>>
    /\ built.campaign_display_method = COMBINED
    /\ built.campaign_calculation_method = AVERAGE
    /\ Len(built.campaign_weeks) = 2

(***************************************************************************)
(* C29: whenever a section displays its stored report in Separate Columns  *)
(* mode, the stored configuration has as many campaign weeks as every row  *)
(* of the stored result has per-week campaign cells.                       *)
(***************************************************************************)
ReportDisplayed ==
    /\ app = "final"
    /\ Generated
    /\ validation_message(app, config) = NO_ERROR

C29_DisplayMatchesColumns ==
    (ReportDisplayed /\ results.config.campaign_display_method = SEPARATE) =>
        \A k \in 1..Len(Rows) :
            Len(results.config.campaign_weeks) = Len(Rows[k].Campaign)

(***************************************************************************)
(* C30: the control-set row sums over every region of the control list,    *)
(* the regions that are also selected as targets included, and divides by  *)
(* the length of the control list times the period divisor; no target row  *)
(* belongs to a control region; when every selected region is a control    *)
(* region the report is the control-set row alone.                         *)
(***************************************************************************)
C30_ControlCoversWholeList ==
    (Generated /\ results.config.control_regions # <<>>) =>
        LET cfg == results.config
            controls == SeqToSet(cfg.control_regions)
            count == RInt(Len(cfg.control_regions))
            control == Rows[Len(Rows)]
        IN  /\ Len(Rows) >= 1
            /\ IsControl(control)
            /\ \A i \in 1..Len(cfg.base_weeks) :
                   control.Base[i] =
                       RawOver(controls, cfg.base_weeks[i], cfg.google_sources,
                               RMul(count, DivisorOf(app, cfg, "base", cfg.base_weeks[i])))
            /\ \A j \in 1..Len(cfg.campaign_weeks) :
                   control.Campaign[j] =
                       RawOver(controls, cfg.campaign_weeks[j], cfg.google_sources,
                               RMul(count, DivisorOf(app, cfg, "campaign",
                                                     cfg.campaign_weeks[j])))
            /\ \A k \in 1..(Len(Rows) - 1) :
                   ~IsControl(Rows[k]) /\ Rows[k].Region \notin controls
            /\ SeqToSet(cfg.selected_regions) \subseteq controls => Len(Rows) = 1

\* the one selected region is also a control region and has visits in the
\* base week, another control region has none: the report is one row
C30_Witness ==
    /\ Generated
    /\ app = "duckdb"
    /\ results.config.selected_regions = <<"East">>
    /\ Len(results.config.control_regions) = 3
    /\ RawTotal({"East"}, results.config.base_weeks[1]) > 0
    /\ \E r \in SeqToSet(results.config.control_regions) :
           RawTotal({r}, results.config.base_weeks[1]) = 0
    /\ Len(Rows) = 1
    /\ IsControl(Rows[1])
    /\ Rows[1].Base[1].Sessions_Total # RInt(0)

====
